---------------------------- MODULE Spec2Model ----------------------------
(***************************************************************************)
(* Model of repo-nature: the SSR detector detectSSR in its two variants    *)
(* (src/detectssr.js, the minimal one, and src/unnamed/part_000, the       *)
(* extended one), the remote directory walk buildRepoStructure, and the    *)
(* HTTP handler of GET /check-repo (the server code at the end of          *)
(* src/README.md).                                                         *)
(*                                                                         *)
(* Strings that the code takes apart (the path-or-URL argument) are        *)
(* sequences of one-character strings; strings that the code only builds   *)
(* or compares (evidence lines, package names) are TLA+ strings; paths     *)
(* inside a project are sequences of segments (<<"pages","api">> is        *)
(* pages/api).                                                             *)
(***************************************************************************)
EXTENDS Naturals, Sequences, FiniteSets, TLC

-----------------------------------------------------------------------------
(* Tables of the detector, in the order Object.entries / for..of visit them *)

null == "null"

ssrFrameworks ==
  << [dep |-> "next",                     framework |-> "Next.js"],
     [dep |-> "nuxt",                     framework |-> "Nuxt.js"],
     [dep |-> "@nuxt/core",               framework |-> "Nuxt.js"],
     [dep |-> "@sveltejs/kit",            framework |-> "SvelteKit"],
     [dep |-> "@remix-run/react",         framework |-> "Remix"],
     [dep |-> "gatsby",                   framework |-> "Gatsby"],
     [dep |-> "angular-universal",        framework |-> "Angular Universal"],
     [dep |-> "@angular/platform-server", framework |-> "Angular Universal"],
     [dep |-> "@nestjs/ng-universal",     framework |-> "Nest.js with Angular Universal"] >>

\* each library as lib.split('/')
ssrLibraries ==
  << <<"react-dom", "server">>,
     <<"vue-server-renderer">>,
     <<"preact-render-to-string">>,
     <<"svelte", "server">>,
     <<"express-react-views">> >>

serverPackages == << "express", "koa", "fastify", "hapi", "@nestjs/core" >>

configFiles ==
  << [file |-> "next.config.js",   framework |-> "Next.js"],
     [file |-> "nuxt.config.js",   framework |-> "Nuxt.js"],
     [file |-> "svelte.config.js", framework |-> "SvelteKit"],
     [file |-> "remix.config.js",  framework |-> "Remix"],
     [file |-> "gatsby-config.js", framework |-> "Gatsby"],
     [file |-> "angular.json",     framework |-> "Angular"] >>

ssrDirectories ==
  << [path |-> <<"pages">>,        name |-> "pages",      framework |-> "Next.js"],
     [path |-> <<"pages", "api">>, name |-> "pages/api",  framework |-> "Next.js API Routes"],
     [path |-> <<"app">>,          name |-> "app",        framework |-> "Next.js App Router"],
     [path |-> <<"server">>,       name |-> "server",     framework |-> "Generic Server"],
     [path |-> <<"serverless">>,   name |-> "serverless", framework |-> "Serverless Functions"],
     [path |-> <<"api">>,          name |-> "api",        framework |-> "API Routes"],
     [path |-> <<"functions">>,    name |-> "functions",  framework |-> "Serverless Functions"],
     [path |-> <<"lambda">>,       name |-> "lambda",     framework |-> "AWS Lambda Functions"] >>

\* the substrings searchForSSRFunctions looks for in a local file
localSSRTokens ==
  { "getServerSideProps", "getInitialProps", "getStaticProps",
    "export async function generateMetadata", "export const generateMetadata" }

\* the terms of the code-search query of searchForSSRFunctionsInGithub
remoteSSRTokens ==
  { "getServerSideProps", "getInitialProps", "getStaticProps", "generateMetadata" }

codeExtensions == { ".js", ".jsx", ".ts", ".tsx" }

StructureCap == 100

-----------------------------------------------------------------------------
(* String helpers: a string the code parses is a sequence of characters     *)

RECURSIVE Str(_)
Str(cs) == IF cs = <<>> THEN "" ELSE Head(cs) \o Str(Tail(cs))

IsAt(s, p, lit) ==
  /\ p + Len(lit) - 1 <= Len(s)
  /\ \A i \in 1..Len(lit) : s[p + i - 1] = lit[i]

\* where the longest run of characters other than "/" starting at p ends
\* (exclusive): the greedy [^\/]+
RECURSIVE RunEnd(_, _)
RunEnd(s, p) == IF p > Len(s) \/ s[p] = "/" THEN p ELSE RunEnd(s, p + 1)

GithubHost == << "g", "i", "t", "h", "u", "b", ".", "c", "o", "m", "/" >>
DotGit == << ".", "g", "i", "t" >>

NoMatch == [ok |-> FALSE, g1 |-> <<>>, g2 |-> <<>>]

\* the two groups, the first starting at a and ending before the "/" at b
Groups(s, a, b) ==
  IF b > a /\ b <= Len(s) /\ RunEnd(s, b + 1) > b + 1
    THEN [ok |-> TRUE, g1 |-> SubSeq(s, a, b - 1),
                       g2 |-> SubSeq(s, b + 1, RunEnd(s, b + 1) - 1)]
    ELSE NoMatch

\* /github\.com\/([^\/]+)\/([^\/]+)/ tried at position p
MatchAt(s, p) ==
  IF ~IsAt(s, p, GithubHost) THEN NoMatch
  ELSE CHOOSE r \in { Groups(s, p + Len(GithubHost), b) :
                        b \in { RunEnd(s, p + Len(GithubHost)) } } : TRUE

\* the leftmost match of githubRegex in s
githubRegex(s) ==
  LET first == { p \in 1..Len(s) : /\ MatchAt(s, p).ok
                                   /\ \A q \in 1..(p - 1) : ~MatchAt(s, q).ok }
  IN  IF first = {} THEN NoMatch
      ELSE CHOOSE r \in { MatchAt(s, p) : p \in first } : TRUE

\* String.prototype.replace(pattern, '') with a string pattern: the first
\* occurrence only
ReplaceFirst(s, pat) ==
  LET hits == { p \in 1..Len(s) : IsAt(s, p, pat) }
  IN  IF hits = {} THEN s
      ELSE LET p == CHOOSE q \in hits : \A r \in hits : q <= r
           IN  SubSeq(s, 1, p - 1) \o SubSeq(s, p + Len(pat), Len(s))

\* match[2].replace('.git', '')
StripGit(s) == ReplaceFirst(s, DotGit)

-----------------------------------------------------------------------------
(* The project under analysis: what is on disk at the local path, or in the *)
(* remote repository.  It does not change during one analysis.              *)

File(n, e) == [name |-> n, type |-> "file", ext |-> e]
Dir(n)     == [name |-> n, type |-> "dir",  ext |-> ""]

\* n plain files f1 .. fn
PadEntries(n) == [ i \in 1..n |-> File("f" \o ToString(i), "") ]

configName(i) == configFiles[i].file

\* .js for the five *.js configuration files, .json for angular.json
configExt(i) == IF configFiles[i].file = "angular.json" THEN ".json" ELSE ".js"

RECURSIVE ConfigEntries(_, _)
ConfigEntries(present, i) ==
  IF i > Len(configFiles) THEN <<>>
  ELSE (IF configName(i) \in present THEN << File(configName(i), configExt(i)) >> ELSE <<>>)
       \o ConfigEntries(present, i + 1)

RECURSIVE TopDirEntries(_, _)
TopDirEntries(present, i) ==
  IF i > Len(ssrDirectories) THEN <<>>
  ELSE (IF Len(ssrDirectories[i].path) = 1 /\ ssrDirectories[i].name \in present
          THEN << Dir(ssrDirectories[i].name) >> ELSE <<>>)
       \o TopDirEntries(present, i + 1)

\* The children of the directory at path, in listing order; <<>> is the root.
Listing(proj, path) ==
  IF path = <<>> THEN
       ConfigEntries(proj.configs, 1)
    \o (IF proj.pkg.kind = "absent" THEN <<>> ELSE << File("package.json", ".json") >>)
    \o PadEntries(proj.pad)
    \o TopDirEntries(proj.dirs, 1)
    \o (IF proj.render THEN << File("server.js", ".js") >> ELSE <<>>)
    \o (IF proj.nodeModules THEN << Dir("node_modules") >> ELSE <<>>)
    \o (IF proj.hazard = "rootDir" THEN << Dir("private") >> ELSE <<>>)
  ELSE IF path = <<"pages">> THEN
       << File("index.js", ".js") >>
    \o (IF "pages/api" \in proj.dirs THEN << Dir("api") >> ELSE <<>>)
    \o (IF proj.hazard = "pagesDir" THEN << Dir("drafts") >> ELSE <<>>)
  ELSE IF path = <<"pages", "api">> THEN << File("hello.js", ".js") >>
  ELSE IF path = <<"app">> THEN << File("page.tsx", ".tsx") >>
  ELSE IF path = <<"node_modules">> THEN << File("react-dom-server.js", ".js") >>
  ELSE << File("index.js", ".js") >>

RECURSIVE Entry(_, _)
\* the entry of the project at path, or a record of type "none"
Entry(proj, path) ==
  IF ~proj.rootExists THEN [name |-> "", type |-> "none", ext |-> ""]
  ELSE IF path = <<>> THEN Dir("")
  ELSE LET parent == SubSeq(path, 1, Len(path) - 1)
           up     == Entry(proj, parent)
           ls     == IF up.type = "dir" THEN Listing(proj, parent) ELSE <<>>
           hits   == { i \in 1..Len(ls) : ls[i].name = path[Len(path)] }
       IN  IF hits = {} THEN [name |-> "", type |-> "none", ext |-> ""]
           ELSE ls[CHOOSE i \in hits : TRUE]

\* the text of a file, as the set of the substrings of interest it contains
Content(proj, path) ==
  IF path = <<"pages", "index.js">> /\ "pages" \in proj.ssrIn THEN {"getServerSideProps"}
  ELSE IF path = <<"app", "page.tsx">> /\ "app" \in proj.ssrIn THEN {"getServerSideProps"}
  ELSE IF path = <<"server.js">> THEN {"renderToString"}
  ELSE IF path = <<"node_modules", "react-dom-server.js">> THEN {"renderToString"}
  ELSE {}

\* a directory whose readdirSync fails (EACCES)
UnreadableDir(proj, path) ==
  \/ proj.hazard = "rootDir"  /\ path = <<"private">>
  \/ proj.hazard = "pagesDir" /\ path = <<"pages", "drafts">>

\* a file whose readFileSync fails
UnreadableFile(proj, path) ==
  proj.hazard = "pagesFile" /\ path = <<"pages", "index.js">>

----------------------------------------------------------------------------
(* Local file system                                                        *)

existsSync(proj, path) == Entry(proj, path).type # "none"

isDirectory(proj, path) == Entry(proj, path).type = "dir"

\* getAllFiles(dirPath, extensions): [threw, files]; the walk throws when a
\* readdirSync (or statSync) inside it throws, nothing in it catches
RECURSIVE getAllFiles(_, _, _)
getAllFiles(proj, dirPath, extensions) ==
  IF ~isDirectory(proj, dirPath) \/ UnreadableDir(proj, dirPath)
    THEN [threw |-> TRUE, files |-> {}]
  ELSE LET ls   == Listing(proj, dirPath)
           \* the subdirectories walked: all but node_modules and .git
           subs == { Append(dirPath, ls[i].name) :
                       i \in { j \in 1..Len(ls) : /\ ls[j].type = "dir"
                                                  /\ ls[j].name # "node_modules"
                                                  /\ ls[j].name # ".git" } }
           recs == { getAllFiles(proj, d, extensions) : d \in subs }
           here == { Append(dirPath, ls[i].name) :
                       i \in { j \in 1..Len(ls) : /\ ls[j].type = "file"
                                                  /\ (extensions = {} \/ ls[j].ext \in extensions) } }
       IN  [threw |-> \E r \in recs : r.threw,
            files |-> here \cup UNION { r.files : r \in recs }]

\* the files of the walk that can be read (a failing read is skipped)
ReadableFiles(proj, files) == { f \in files : ~UnreadableFile(proj, f) }

\* searchForSSRFunctions(dirPath): [threw, found]
searchForSSRFunctions(proj, dirPath) ==
  LET walk == getAllFiles(proj, dirPath, codeExtensions)
  IN  [threw |-> walk.threw,
       found |-> ~walk.threw /\ \E f \in ReadableFiles(proj, walk.files) :
                                   Content(proj, f) \cap localSSRTokens # {}]

\* a search that takes "every file matches" for "some file matches"
searchForPatternEvery(proj, dirPath, pattern) ==
  LET walk == getAllFiles(proj, dirPath, codeExtensions)
  IN  [threw |-> walk.threw,
       found |-> ~walk.threw /\ \A f \in ReadableFiles(proj, walk.files) :
                                   pattern \in Content(proj, f)]

\* searchForPattern(dirPath, pattern): [threw, found]
searchForPattern(proj, dirPath, pattern) ==
  LET walk == getAllFiles(proj, dirPath, codeExtensions)
  IN  [threw |-> walk.threw,
       found |-> ~walk.threw /\ \E f \in ReadableFiles(proj, walk.files) :
                                   pattern \in Content(proj, f)]

----------------------------------------------------------------------------
(* Remote repository API (Octokit / fetch)                                  *)

\* repos.getContent fails: transport failure (for every call, or for the
\* listings below the root only), or nothing at that path
getContentThrows(proj, path) ==
  \/ proj.api \in {"contents", "all"}
  \/ proj.api = "deep" /\ path # <<>> /\ Entry(proj, path).type = "dir"
  \/ Entry(proj, path).type = "none"

searchThrows(proj) == proj.api \in {"search", "all"} \/ ~proj.rootExists

\* every file of the repository below path
RECURSIVE RepoFiles(_, _)
RepoFiles(proj, path) ==
  LET ls == Listing(proj, path)
  IN  UNION { IF ls[i].type = "dir" THEN RepoFiles(proj, Append(path, ls[i].name))
              ELSE { Append(path, ls[i].name) } : i \in 1..Len(ls) }

\* searchForSSRFunctionsInGithub(octokit, owner, repo, dirPath)
searchForSSRFunctionsInGithub(proj, dirPath) ==
  /\ ~searchThrows(proj)
  /\ \E f \in RepoFiles(proj, dirPath) : Content(proj, f) \cap remoteSSRTokens # {}

\* searchForPatternInGithub(octokit, owner, repo, pattern)
searchForPatternInGithub(proj, pattern) ==
  /\ ~searchThrows(proj)
  /\ \E f \in RepoFiles(proj, <<>>) : pattern \in Content(proj, f)

\* getFileFromGithub(..., 'package.json'): TRUE when it returns content
getFileFromGithub(proj, path) ==
  ~getContentThrows(proj, path) /\ Entry(proj, path).type = "file"

----------------------------------------------------------------------------
(* Inputs: the path-or-URL strings and the projects the runs are checked on *)

MaxDeps == 2
BigListing == 101

\* /srv/app
LocalPath ==
  << "/", "s", "r", "v", "/", "a", "p", "p" >>

\* .
DotPath ==
  << "." >>

\* https://github.com/acme/widgets.git
UrlWidgetsGit ==
  << "h", "t", "t", "p", "s", ":", "/", "/", "g", "i", "t", "h", "u", "b", ".", "c", "o", "m", "/", "a", "c", "m", "e", "/", "w", "i", "d", "g", "e", "t", "s", ".", "g", "i", "t" >>

\* https://github.com/acme/my.github.io
UrlGithubIo ==
  << "h", "t", "t", "p", "s", ":", "/", "/", "g", "i", "t", "h", "u", "b", ".", "c", "o", "m", "/", "a", "c", "m", "e", "/", "m", "y", ".", "g", "i", "t", "h", "u", "b", ".", "i", "o" >>

\* https://github.com/acme/.github
UrlGitPrefix ==
  << "h", "t", "t", "p", "s", ":", "/", "/", "g", "i", "t", "h", "u", "b", ".", "c", "o", "m", "/", "a", "c", "m", "e", "/", ".", "g", "i", "t", "h", "u", "b" >>

\* github.com/acme/widgets
UrlPlain ==
  << "g", "i", "t", "h", "u", "b", ".", "c", "o", "m", "/", "a", "c", "m", "e", "/", "w", "i", "d", "g", "e", "t", "s" >>

\* https://github.com/acme/widgets/tree/main
UrlTree ==
  << "h", "t", "t", "p", "s", ":", "/", "/", "g", "i", "t", "h", "u", "b", ".", "c", "o", "m", "/", "a", "c", "m", "e", "/", "w", "i", "d", "g", "e", "t", "s", "/", "t", "r", "e", "e", "/", "m", "a", "i", "n" >>

\* https://github.com/acme
UrlOwnerOnly ==
  << "h", "t", "t", "p", "s", ":", "/", "/", "g", "i", "t", "h", "u", "b", ".", "c", "o", "m", "/", "a", "c", "m", "e" >>

RemoteInputs == { UrlWidgetsGit, UrlGithubIo, UrlGitPrefix, UrlPlain, UrlTree }
LocalInputs  == { LocalPath, DotPath, UrlOwnerOnly }
Inputs       == RemoteInputs \cup LocalInputs

DepNames  == { "next", "nuxt", "react-dom", "express", "lodash" }
DepValues == { "^1.0.0", "" }

\* the dependency maps with at most n keys
DepMaps(n) ==
  UNION { [D -> DepValues] : D \in { S \in SUBSET DepNames : Cardinality(S) <= n } }

NoDeps == [k \in {} |-> ""]

DevChoices == { NoDeps, [k \in {"next"} |-> "^1.0.0"], [k \in {"next"} |-> ""] }

Pkg(kind, deps, dev) == [kind |-> kind, dependencies |-> deps, devDependencies |-> dev]

\* package.json: absent, an empty file, malformed JSON, the JSON value null,
\* or an object with its two dependency maps
OddPkgs == { Pkg(k, NoDeps, NoDeps) : k \in {"absent", "empty", "malformed", "null"} }

CorePkgs ==
  { Pkg("absent", NoDeps, NoDeps),
    Pkg("malformed", NoDeps, NoDeps),
    Pkg("object", [k \in {"next"} |-> "^1.0.0"], NoDeps),
    Pkg("object", [k \in {"react-dom", "svelte", "express"} |-> "^1.0.0"], NoDeps) }

\* no configuration file, each one alone, and two pairs
ConfigChoices ==
  { {} } \cup { { configFiles[i].file } : i \in 1..Len(configFiles) }
         \cup { {"next.config.js", "nuxt.config.js"}, {"next.config.js", "angular.json"} }

DirChoices ==
  { {}, {"pages"}, {"pages", "pages/api"}, {"app"}, {"server", "api"},
    {"server", "serverless", "functions", "lambda"} }

Project(pkg, configs, dirs, ssrIn, render, nodeModules, hazard, api, pad, rootExists) ==
  [pkg |-> pkg, configs |-> configs, dirs |-> dirs, ssrIn |-> ssrIn, render |-> render,
   nodeModules |-> nodeModules, hazard |-> hazard, api |-> api, pad |-> pad,
   rootExists |-> rootExists]

EmptyProject ==
  Project(Pkg("absent", NoDeps, NoDeps), {}, {}, {}, FALSE, FALSE, "none", "ok", 0, TRUE)

\* a path that does not exist, a repository that does not exist
MissingProject == [EmptyProject EXCEPT !.rootExists = FALSE]

Hazards  == { "none", "rootDir", "pagesDir", "pagesFile" }
ApiModes == { "ok", "contents", "deep", "search", "all" }

CoreTrees ==
  { EmptyProject,
    [EmptyProject EXCEPT !.dirs = {"server", "api"}, !.render = TRUE, !.nodeModules = TRUE],
    [EmptyProject EXCEPT !.dirs = {"server", "api"}, !.hazard = "rootDir",
                         !.nodeModules = TRUE, !.api = "search"] }

BigTrees ==
  { [EmptyProject EXCEPT !.pad = n, !.dirs = {"pages", "pages/api"},
                         !.configs = {"angular.json"}] : n \in {StructureCap - 3, BigListing} }

----------------------------------------------------------------------------
(* State                                                                    *)

VARIABLES
  caller,            \* "cli" (main) or "http" (the /check-repo handler)
  variant,           \* "minimal" (src/detectssr.js) or "extended" (part_000)
  request,           \* [present, repoPath]: argv[2] or req.query.repoPath
  project,           \* what is at the path / in the repository
  pc,                \* where the run is
  idx,               \* position of the current for-loop in its table
  needsSSR, evidence, frameworkDetected, confidence,     \* results
  repoPathOrUrl,     \* the argument of detectSSR
  isGithubUrl, owner, repo,
  packageJson,
  repoStructure,     \* the paths collected by buildRepoStructure
  stack,             \* the pending calls of buildRepoStructure: [path, i]
  errorMessage,      \* the message of the exception being handled
  outcome,           \* of the detectSSR call: "pending", "returned", "threw"
  calls,             \* how many times detectSSR was invoked
  responses          \* the HTTP responses sent, in order

env     == << caller, variant, request, project >>
results == << needsSSR, evidence, frameworkDetected, confidence >>
locals  == << repoPathOrUrl, isGithubUrl, owner, repo, packageJson, repoStructure, stack >>
vars    == << env, pc, idx, results, locals, errorMessage, outcome, calls, responses >>

Truthy(map, key) == key \in DOMAIN map /\ map[key] # ""

\* {...(packageJson.dependencies || {}), ...(packageJson.devDependencies || {})}
allDependencies(pj) ==
  [ k \in DOMAIN pj.dependencies \cup DOMAIN pj.devDependencies |->
      IF k \in DOMAIN pj.devDependencies THEN pj.devDependencies[k]
      ELSE pj.dependencies[k] ]

IsPrefix(p, q) == Len(p) <= Len(q) /\ SubSeq(q, 1, Len(p)) = p

nullJson == Pkg("null", NoDeps, NoDeps)

Response(status, error, details, withResults) ==
  [status |-> status, error |-> error, details |-> details, results |-> withResults]

----------------------------------------------------------------------------
(* Initial states                                                           *)

InitRun ==
  /\ pc = "request" /\ idx = 1
  /\ needsSSR = FALSE /\ evidence = <<>> /\ frameworkDetected = null /\ confidence = 0
  /\ repoPathOrUrl = <<>> /\ isGithubUrl = FALSE /\ owner = <<>> /\ repo = <<>>
  /\ packageJson = nullJson /\ repoStructure = <<>> /\ stack = <<>>
  /\ errorMessage = "" /\ outcome = "pending" /\ calls = 0 /\ responses = <<>>

\* every input string, on a few projects, from both callers
InitInputs ==
  /\ caller \in {"cli", "http"}
  /\ variant \in {"minimal", "extended"}
  /\ caller = "http" => variant = "minimal"
  /\ request \in { [present |-> TRUE, repoPath |-> i] : i \in Inputs \cup {<<>>} }
                   \cup { [present |-> FALSE, repoPath |-> <<>>] }
  /\ project \in { EmptyProject, MissingProject }
                 \cup { [EmptyProject EXCEPT !.pkg = k] : k \in OddPkgs }
                 \cup { [EmptyProject EXCEPT !.pkg = Pkg("object", [k \in {"next"} |-> "^1.0.0"], NoDeps),
                                             !.dirs = {"pages", "pages/api"}, !.ssrIn = {"pages"},
                                             !.api = a] : a \in ApiModes }
                 \cup { [EmptyProject EXCEPT !.pkg = Pkg("malformed", NoDeps, NoDeps),
                                             !.configs = {"next.config.js"}] }

\* every manifest, on a few trees
InitManifests ==
  /\ caller = "cli"
  /\ variant \in {"minimal", "extended"}
  /\ request \in { [present |-> TRUE, repoPath |-> i] : i \in {LocalPath, UrlWidgetsGit} }
  /\ \E t \in CoreTrees, d \in DepMaps(MaxDeps), e \in DevChoices :
       project = [t EXCEPT !.pkg = Pkg("object", d, e)]

\* every tree shape, with a few manifests
InitShapes ==
  /\ caller = "cli"
  /\ variant \in {"minimal", "extended"}
  /\ \E remote \in BOOLEAN :
       /\ request = [present |-> TRUE, repoPath |-> IF remote THEN UrlWidgetsGit ELSE LocalPath]
       /\ \E m \in CorePkgs, c \in ConfigChoices, d \in DirChoices,
             s \in SUBSET {"pages", "app"}, r \in BOOLEAN :
            /\ s \subseteq d
            /\ \E h \in (IF remote THEN {"none"} ELSE Hazards),
                  a \in (IF remote THEN {"ok", "contents", "search"} ELSE {"ok"}) :
                 /\ h \in {"pagesDir", "pagesFile"} => "pages" \in d
                 /\ project = Project(m, c, d, s, r, FALSE, h, a, 0, TRUE)

\* repositories with long listings
InitBig ==
  /\ caller = "cli"
  /\ variant \in {"minimal", "extended"}
  /\ request = [present |-> TRUE, repoPath |-> UrlWidgetsGit]
  /\ project \in BigTrees

Init == InitRun /\ (InitInputs \/ InitManifests \/ InitShapes \/ InitBig)

----------------------------------------------------------------------------
(* The callers                                                              *)

\* const results = {needsSSR: false, evidence: [], frameworkDetected: null, confidence: 0}
Invoke(arg) ==
  /\ calls' = calls + 1
  /\ repoPathOrUrl' = arg
  /\ needsSSR' = FALSE /\ evidence' = <<>> /\ frameworkDetected' = null /\ confidence' = 0
  /\ pc' = "resolve"
  /\ UNCHANGED << env, idx, isGithubUrl, owner, repo, packageJson, repoStructure, stack,
                  errorMessage, outcome >>

\* app.get('/check-repo'), up to the await
checkRepoNoReturn ==
  /\ pc = "request" /\ caller = "http"
  /\ IF ~request.present \/ request.repoPath = <<>>
       THEN responses' = Append(responses, Response(400, "repoPath is required", "", FALSE))
       ELSE UNCHANGED responses
  /\ Invoke(request.repoPath)

checkRepo ==
  /\ pc = "request" /\ caller = "http"
  /\ IF ~request.present \/ request.repoPath = <<>>
       THEN /\ responses' = Append(responses, Response(400, "repoPath is required", "", FALSE))
            /\ pc' = "finished"
            /\ UNCHANGED << env, idx, results, locals, errorMessage, outcome, calls >>
       ELSE /\ Invoke(request.repoPath)
            /\ UNCHANGED responses

\* app.get('/check-repo'), after the await: res.json or the catch
checkRepoRespond ==
  /\ pc = "respond" /\ caller = "http"
  /\ responses' = Append(responses,
        IF outcome = "threw"
          THEN Response(500, "Failed to analyze repository", errorMessage, FALSE)
          ELSE Response(200, "", "", TRUE))
  /\ pc' = "finished"
  /\ UNCHANGED << env, idx, results, locals, errorMessage, outcome, calls >>

\* main(), up to the await: process.argv[2] || '.'
main ==
  /\ pc = "request" /\ caller = "cli"
  /\ Invoke(IF ~request.present \/ request.repoPath = <<>> THEN DotPath ELSE request.repoPath)
  /\ UNCHANGED responses

\* main(), after the await: the report is printed
mainPrint ==
  /\ pc = "respond" /\ caller = "cli"
  /\ pc' = "finished"
  /\ UNCHANGED << env, idx, results, locals, errorMessage, outcome, calls, responses >>

----------------------------------------------------------------------------
(* detectSSR                                                                *)

\* an exception inside the try block: control goes to the catch
Throw(msg) == pc' = "catch" /\ errorMessage' = msg

\* the github regex, owner, repo and the first evidence line
resolveEntry ==
  /\ pc = "resolve"
  /\ \E m \in { githubRegex(repoPathOrUrl) } :
         /\ isGithubUrl' = m.ok
         /\ IF m.ok
              THEN /\ owner' = m.g1
                   /\ repo' = StripGit(m.g2)
                   /\ evidence' = Append(evidence,
                        "Analyzing GitHub repository: " \o Str(m.g1) \o "/" \o Str(StripGit(m.g2)))
                   /\ pc' = "structure"
              ELSE /\ UNCHANGED << owner, repo, evidence >>
                   /\ pc' = "manifest"
  /\ UNCHANGED << env, idx, needsSSR, frameworkDetected, confidence, repoPathOrUrl,
                  packageJson, repoStructure, stack, errorMessage, outcome, calls, responses >>

RootNames(proj) ==
  LET ls == Listing(proj, <<>>) IN [ i \in 1..Len(ls) |-> << ls[i].name >> ]

\* the call buildRepoStructure(...) of detectSSR.  Minimal variant: one
\* listing of the root, its names.  Extended variant: the first getContent of
\* the recursive walk; the loop over its items follows in buildRepoStructureItem.
buildRepoStructure ==
  /\ pc = "structure"
  /\ IF getContentThrows(project, <<>>)
       THEN pc' = "manifest" /\ UNCHANGED << repoStructure, stack >>
       ELSE IF variant = "minimal"
         THEN pc' = "manifest" /\ repoStructure' = RootNames(project) /\ UNCHANGED stack
         ELSE pc' = "walk" /\ stack' = << [path |-> <<>>, i |-> 1] >> /\ UNCHANGED repoStructure
  /\ UNCHANGED << env, idx, results, repoPathOrUrl, isGithubUrl, owner, repo, packageJson,
                  errorMessage, outcome, calls, responses >>

\* one iteration of `for (const item of contents)` of the innermost pending
\* call of buildRepoStructure, or its return when the loop is over
buildRepoStructureItem ==
  /\ pc = "walk"
  /\ \E top \in { stack[Len(stack)] } : \E ls \in { Listing(project, top.path) } :
         IF top.i > Len(ls)
           THEN /\ stack' = SubSeq(stack, 1, Len(stack) - 1)
                /\ pc' = IF Len(stack) = 1 THEN "manifest" ELSE "walk"
                /\ UNCHANGED repoStructure
           ELSE LET item     == ls[top.i]
                    itemPath == Append(top.path, item.name)
                    grown    == Append(repoStructure, itemPath)
                    advanced == [stack EXCEPT ![Len(stack)].i = top.i + 1]
                IN  /\ repoStructure' = grown
                    /\ stack' = IF /\ item.type = "dir"
                                   /\ Len(grown) < StructureCap
                                   /\ ~getContentThrows(project, itemPath)
                                  THEN Append(advanced, [path |-> itemPath, i |-> 1])
                                  ELSE advanced
                    /\ pc' = "walk"
  /\ UNCHANGED << env, idx, results, repoPathOrUrl, isGithubUrl, owner, repo, packageJson,
                  errorMessage, outcome, calls, responses >>

\* package.json is read and parsed (JSON.parse throws on an empty or
\* malformed text); remotely an empty text is falsy and is not parsed
loadPackageJson ==
  /\ pc = "manifest"
  /\ LET kind    == project.pkg.kind
         present == IF isGithubUrl THEN getFileFromGithub(project, <<"package.json">>)
                    ELSE existsSync(project, <<"package.json">>)
         parsed  == present /\ ~(isGithubUrl /\ kind = "empty")
     IN  IF parsed /\ kind \in {"empty", "malformed"}
           THEN /\ Throw(IF kind = "empty" THEN "Unexpected end of JSON input"
                         ELSE "Unexpected token in JSON")
                /\ UNCHANGED packageJson
           ELSE /\ packageJson' = IF parsed THEN project.pkg ELSE nullJson
                /\ pc' = IF parsed /\ kind = "object" THEN "frameworks" ELSE "config"
                /\ UNCHANGED errorMessage
  /\ idx' = 1
  /\ UNCHANGED << env, results, repoPathOrUrl, isGithubUrl, owner, repo, repoStructure,
                  stack, outcome, calls, responses >>

UnchangedByLoop ==
  UNCHANGED << env, locals, errorMessage, outcome, calls, responses >>

\* a framework pass that names the framework without forcing the verdict
checkFrameworksNoForce ==
  /\ pc = "frameworks"
  /\ IF idx > Len(ssrFrameworks)
       THEN /\ pc' = IF variant = "extended" THEN "libraries" ELSE "config"
            /\ idx' = 1
            /\ UNCHANGED results
       ELSE /\ LET e == ssrFrameworks[idx]
               IN  IF Truthy(allDependencies(packageJson), e.dep)
                     THEN /\ evidence' = Append(evidence,
                               "Found SSR framework: " \o e.framework \o " (" \o e.dep \o ")")
                          /\ frameworkDetected' = e.framework
                          /\ confidence' = confidence + 30
                          /\ UNCHANGED needsSSR
                     ELSE UNCHANGED results
            /\ idx' = idx + 1
            /\ UNCHANGED pc
  /\ UnchangedByLoop

\* one iteration of the loop over ssrFrameworks
checkFrameworks ==
  /\ pc = "frameworks"
  /\ IF idx > Len(ssrFrameworks)
       THEN /\ pc' = IF variant = "extended" THEN "libraries" ELSE "config"
            /\ idx' = 1
            /\ UNCHANGED results
       ELSE /\ LET e == ssrFrameworks[idx]
               IN  IF Truthy(allDependencies(packageJson), e.dep)
                     THEN /\ evidence' = Append(evidence,
                               "Found SSR framework: " \o e.framework \o " (" \o e.dep \o ")")
                          /\ frameworkDetected' = e.framework
                          /\ confidence' = confidence + 30
                          /\ needsSSR' = TRUE
                     ELSE UNCHANGED results
            /\ idx' = idx + 1
            /\ UNCHANGED pc
  /\ UnchangedByLoop

\* a library pass whose finding forces the verdict
checkLibrariesForce ==
  /\ pc = "libraries"
  /\ IF idx > Len(ssrLibraries)
       THEN pc' = "servers" /\ idx' = 1 /\ UNCHANGED results
       ELSE /\ LET libName == ssrLibraries[idx][1]
               IN  IF Truthy(allDependencies(packageJson), libName)
                     THEN /\ evidence' = Append(evidence, "Found potential SSR library: " \o libName)
                          /\ confidence' = confidence + 10
                          /\ needsSSR' = TRUE
                          /\ UNCHANGED frameworkDetected
                     ELSE UNCHANGED results
            /\ idx' = idx + 1
            /\ UNCHANGED pc
  /\ UnchangedByLoop

\* one iteration of the loop over ssrLibraries (extended variant)
checkLibraries ==
  /\ pc = "libraries"
  /\ IF idx > Len(ssrLibraries)
       THEN pc' = "servers" /\ idx' = 1 /\ UNCHANGED results
       ELSE /\ LET libName == ssrLibraries[idx][1]
               IN  IF Truthy(allDependencies(packageJson), libName)
                     THEN /\ evidence' = Append(evidence, "Found potential SSR library: " \o libName)
                          /\ confidence' = confidence + 10
                          /\ UNCHANGED << needsSSR, frameworkDetected >>
                     ELSE UNCHANGED results
            /\ idx' = idx + 1
            /\ UNCHANGED pc
  /\ UnchangedByLoop

\* one iteration of the loop over serverPackages (extended variant)
checkServerPackages ==
  /\ pc = "servers"
  /\ IF idx > Len(serverPackages)
       THEN pc' = "config" /\ idx' = 1 /\ UNCHANGED results
       ELSE /\ LET pkg == serverPackages[idx]
               IN  IF Truthy(allDependencies(packageJson), pkg)
                     THEN /\ evidence' = Append(evidence, "Found server package: " \o pkg)
                          /\ confidence' = confidence + 5
                          /\ UNCHANGED << needsSSR, frameworkDetected >>
                     ELSE UNCHANGED results
            /\ idx' = idx + 1
            /\ UNCHANGED pc
  /\ UnchangedByLoop

\* whether the configuration file is found: in the collected structure
\* remotely, on disk locally
configFileExists(file) ==
  IF isGithubUrl THEN \E k \in 1..Len(repoStructure) : repoStructure[k] = << file >>
  ELSE existsSync(project, << file >>)

\* one iteration of the loop over configFiles
checkConfigFilesNoForce ==
  /\ pc = "config"
  /\ IF idx > Len(configFiles)
       THEN /\ pc' = IF variant = "extended" THEN "dirs" ELSE "threshold"
            /\ idx' = 1
            /\ UNCHANGED results
       ELSE /\ LET e == configFiles[idx]
               IN  IF configFileExists(e.file)
                     THEN /\ evidence' = Append(evidence,
                               "Found configuration file for " \o e.framework \o ": " \o e.file)
                          /\ frameworkDetected' =
                               IF frameworkDetected # null THEN frameworkDetected ELSE e.framework
                          /\ confidence' = confidence + 20
                          /\ UNCHANGED needsSSR
                     ELSE UNCHANGED results
            /\ idx' = idx + 1
            /\ UNCHANGED pc
  /\ UnchangedByLoop

checkConfigFiles ==
  /\ pc = "config"
  /\ IF idx > Len(configFiles)
       THEN /\ pc' = IF variant = "extended" THEN "dirs" ELSE "threshold"
            /\ idx' = 1
            /\ UNCHANGED results
       ELSE /\ LET e == configFiles[idx]
               IN  IF configFileExists(e.file)
                     THEN /\ evidence' = Append(evidence,
                               "Found configuration file for " \o e.framework \o ": " \o e.file)
                          /\ frameworkDetected' =
                               IF frameworkDetected # null THEN frameworkDetected ELSE e.framework
                          /\ confidence' = confidence + 20
                          /\ needsSSR' = TRUE
                     ELSE UNCHANGED results
            /\ idx' = idx + 1
            /\ UNCHANGED pc
  /\ UnchangedByLoop

\* whether the directory is found: an item of the collected structure equal
\* to it or below it remotely, an existing directory locally
dirExists(path) ==
  IF isGithubUrl THEN \E k \in 1..Len(repoStructure) : IsPrefix(path, repoStructure[k])
  ELSE existsSync(project, path) /\ isDirectory(project, path)

\* the search for SSR functions below pages or app: [threw, found]
ssrFunctionsSearch(path) ==
  IF isGithubUrl
    THEN [threw |-> FALSE, found |-> searchForSSRFunctionsInGithub(project, path)]
    ELSE searchForSSRFunctions(project, path)

ScandirMessage(proj) ==
  IF proj.rootExists THEN "EACCES: permission denied, scandir"
  ELSE "ENOENT: no such file or directory, scandir"

\* one iteration of the loop over ssrDirectories (extended variant)
checkDirectories ==
  /\ pc = "dirs"
  /\ IF idx > Len(ssrDirectories)
       THEN /\ pc' = "pattern" /\ idx' = 1
            /\ UNCHANGED << results, errorMessage >>
       ELSE LET dir     == ssrDirectories[idx]
                dirLine == "Found SSR-related directory: " \o dir.name
                             \o " (indicates " \o dir.framework \o ")"
                fnLine  == "Found SSR functions (getServerSideProps or getInitialProps) in "
                             \o dir.name
            IN  \E search \in { IF dir.name \in {"pages", "app"} /\ dirExists(dir.path)
                                   THEN ssrFunctionsSearch(dir.path)
                                   ELSE [threw |-> FALSE, found |-> FALSE] } :
                IF ~dirExists(dir.path)
                  THEN /\ idx' = idx + 1
                       /\ UNCHANGED << pc, results, errorMessage >>
                ELSE IF dir.name \notin {"pages", "app"}
                  THEN /\ evidence' = Append(evidence, dirLine)
                       /\ confidence' = confidence + 10
                       /\ idx' = idx + 1
                       /\ UNCHANGED << pc, needsSSR, frameworkDetected, errorMessage >>
                ELSE IF search.threw
                  THEN /\ evidence' = Append(evidence, dirLine)
                       /\ confidence' = confidence + 10
                       /\ Throw(ScandirMessage(project))
                       /\ UNCHANGED << idx, needsSSR, frameworkDetected >>
                ELSE IF search.found
                  THEN /\ evidence' = Append(Append(evidence, dirLine), fnLine)
                       /\ confidence' = confidence + 10 + 15
                       /\ needsSSR' = TRUE
                       /\ idx' = idx + 1
                       /\ UNCHANGED << pc, frameworkDetected, errorMessage >>
                  ELSE /\ evidence' = Append(evidence, dirLine)
                       /\ confidence' = confidence + 10
                       /\ idx' = idx + 1
                       /\ UNCHANGED << pc, needsSSR, frameworkDetected, errorMessage >>
  /\ UNCHANGED << env, locals, outcome, calls, responses >>

\* the search for renderToString in the whole project: [threw, found]
renderToStringSearch ==
  IF isGithubUrl
    THEN [threw |-> FALSE, found |-> searchForPatternInGithub(project, "renderToString")]
    ELSE searchForPattern(project, <<>>, "renderToString")

\* the code pattern detector (extended variant)
checkPatterns ==
  /\ pc = "pattern"
  /\ \E search \in { renderToStringSearch } :
         IF search.threw
           THEN /\ Throw(ScandirMessage(project))
                /\ UNCHANGED results
         ELSE IF search.found
           THEN /\ evidence' = Append(evidence, "Found renderToString calls (React SSR)")
                /\ confidence' = confidence + 15
                /\ needsSSR' = TRUE
                /\ pc' = "threshold"
                /\ UNCHANGED << frameworkDetected, errorMessage >>
           ELSE /\ pc' = "threshold"
                /\ UNCHANGED << results, errorMessage >>
  /\ UNCHANGED << env, idx, locals, outcome, calls, responses >>

\* a threshold rule that assigns the verdict instead of raising it
finalConfidenceAssigns ==
  /\ pc = "threshold"
  /\ needsSSR' = (confidence > 30)
  /\ pc' = "return"
  /\ UNCHANGED << env, idx, evidence, frameworkDetected, confidence, locals, errorMessage,
                  outcome, calls, responses >>

\* if (results.confidence > 30) results.needsSSR = true
finalConfidence ==
  /\ pc = "threshold"
  /\ needsSSR' = (needsSSR \/ confidence > 30)
  /\ pc' = "return"
  /\ UNCHANGED << env, idx, evidence, frameworkDetected, confidence, locals, errorMessage,
                  outcome, calls, responses >>

\* a catch block that lets the error out of detectSSR
catchRethrows ==
  /\ pc = "catch"
  /\ outcome' = "threw"
  /\ pc' = "respond"
  /\ UNCHANGED << env, idx, results, locals, errorMessage, calls, responses >>

\* a catch block that discards the confidence gathered before the failure
catchErrorResets ==
  /\ pc = "catch"
  /\ evidence' = Append(evidence, "Error analyzing repository: " \o errorMessage)
  /\ confidence' = 0
  /\ pc' = "return"
  /\ UNCHANGED << env, idx, needsSSR, frameworkDetected, locals, errorMessage,
                  outcome, calls, responses >>

\* catch (error) { results.evidence.push(`Error analyzing repository: ...`) }
catchError ==
  /\ pc = "catch"
  /\ evidence' = Append(evidence, "Error analyzing repository: " \o errorMessage)
  /\ pc' = "return"
  /\ UNCHANGED << env, idx, needsSSR, frameworkDetected, confidence, locals, errorMessage,
                  outcome, calls, responses >>

\* return results
returnResults ==
  /\ pc = "return"
  /\ outcome' = "returned"
  /\ pc' = "respond"
  /\ UNCHANGED << env, idx, results, locals, errorMessage, calls, responses >>

----------------------------------------------------------------------------

Next ==
  \/ checkRepo
  \/ checkRepoRespond
  \/ main
  \/ mainPrint
  \/ resolveEntry
  \/ buildRepoStructure
  \/ buildRepoStructureItem
  \/ loadPackageJson
  \/ checkFrameworks
  \/ checkLibraries
  \/ checkServerPackages
  \/ checkConfigFiles
  \/ checkDirectories
  \/ checkPatterns
  \/ finalConfidence
  \/ catchError
  \/ returnResults

\* Every step of a run is the continuation of the one before it: the calls the
\* run awaits complete (with a result or an error), and then the run goes on.
Spec == Init /\ [][Next]_vars /\ WF_vars(Next)

----------------------------------------------------------------------------
(* Vocabulary of the properties                                             *)

\* detectSSR has returned its report to the caller
Returned == outcome = "returned"

InEvidence(line) == \E i \in 1..Len(evidence) : evidence[i] = line

frameworkLine(e) == "Found SSR framework: " \o e.framework \o " (" \o e.dep \o ")"
configLine(e)    == "Found configuration file for " \o e.framework \o ": " \o e.file
errorLine        == "Error analyzing repository: " \o errorMessage
analyzingLine    == "Analyzing GitHub repository: " \o Str(owner) \o "/" \o Str(repo)

\* the framework a finding's evidence line carries, null when it carries none
FrameworkOfLine(line) ==
  IF \E i \in 1..Len(ssrFrameworks) : frameworkLine(ssrFrameworks[i]) = line
    THEN ssrFrameworks[CHOOSE i \in 1..Len(ssrFrameworks) :
                          frameworkLine(ssrFrameworks[i]) = line].framework
  ELSE IF \E i \in 1..Len(configFiles) : configLine(configFiles[i]) = line
    THEN configFiles[CHOOSE i \in 1..Len(configFiles) :
                        configLine(configFiles[i]) = line].framework
  ELSE null

\* the framework of the first framework-bearing finding of the evidence
FirstFramework ==
  LET bearing == { i \in 1..Len(evidence) : FrameworkOfLine(evidence[i]) # null }
  IN  IF bearing = {} THEN null
      ELSE FrameworkOfLine(evidence[CHOOSE i \in bearing : \A j \in bearing : i <= j])

\* the input split at every "/"
RECURSIVE Split(_)
Split(s) ==
  LET e == RunEnd(s, 1)
  IN  IF e > Len(s) THEN << s >>
      ELSE << SubSeq(s, 1, e - 1) >> \o Split(SubSeq(s, e + 1, Len(s)))

HostName == SubSeq(GithubHost, 1, Len(GithubHost) - 1)

\* the path segment n places after the host name
SegmentAfterHost(s, n) ==
  LET segs == Split(s)
      k    == CHOOSE i \in 1..Len(segs) : segs[i] = HostName /\ \A j \in 1..(i - 1) : segs[j] # HostName
  IN  segs[k + n]

StripTrailingGit(s) ==
  IF Len(s) >= Len(DotGit) /\ SubSeq(s, Len(s) - Len(DotGit) + 1, Len(s)) = DotGit
    THEN SubSeq(s, 1, Len(s) - Len(DotGit))
    ELSE s

\* package.json can be read: it is there, and remotely the API delivers it
ManifestReadable ==
  /\ project.rootExists
  /\ project.pkg.kind # "absent"
  /\ isGithubUrl => project.api \notin {"contents", "all"}

\* the root listing reaches the configuration file detector
RootListed == project.rootExists /\ (isGithubUrl => project.api \notin {"contents", "all"})

\* the keys of the SSR framework table that the manifest declares
DeclaredFrameworks ==
  { i \in 1..Len(ssrFrameworks) :
      ssrFrameworks[i].dep \in DOMAIN project.pkg.dependencies
                               \cup DOMAIN project.pkg.devDependencies }

\* nothing in the project is a signal for any detector
NoSignal ==
  /\ project.pkg.kind = "absent"
  /\ project.configs = {} /\ project.dirs = {}
  /\ ~project.render /\ ~project.nodeModules

\* an existing directory with nothing in it
EmptyDirectory == project.rootExists /\ Listing(project, <<>>) = <<>>

----------------------------------------------------------------------------
(* Properties                                                               *)

\* C1: in every report returned by detectSSR, also one returned through the
\* outer catch, confidence > 30 implies needsSSR.
C1_ThresholdImpliesNeedsSSR == Returned => (confidence > 30 => needsSSR)

\* C2: the returned frameworkDetected is the framework of the first
\* framework-bearing finding in execution order; no later finding overwrites it.
C2_FirstFrameworkWins == Returned => frameworkDetected = FirstFramework

\* C3: for a readable, well-formed manifest, every key of the SSR framework
\* table present in dependencies or devDependencies, with any value, gives
\* needsSSR, its evidence line and +30 confidence.
C3_DeclaredFrameworkFound ==
  (Returned /\ ManifestReadable /\ project.pkg.kind = "object") =>
    /\ \A i \in DeclaredFrameworks : needsSSR /\ InEvidence(frameworkLine(ssrFrameworks[i]))
    /\ confidence >= 30 * Cardinality(DeclaredFrameworks)

\* C4: a failure inside one detector does not abort the analysis: with a
\* malformed package.json, or a failing read inside the directory or code
\* pattern detector, the configuration files at the root are still reported
\* (+20, needsSSR, framework) and no error line is added.
C4_DetectorFailureIsSwallowed ==
  (Returned /\ RootListed) =>
    /\ ~InEvidence(errorLine)
    /\ \A i \in 1..Len(configFiles) :
         configFiles[i].file \in project.configs =>
           /\ InEvidence(configLine(configFiles[i]))
           /\ needsSSR /\ confidence >= 20 /\ frameworkDetected # null

\* C5: detectSSR never throws: every invocation goes on until it returns a
\* report with the four fields needsSSR, evidence, frameworkDetected, confidence.
C5_AlwaysReturnsReport ==
  /\ [](outcome # "threw")
  /\ []((calls > 0 /\ pc \in {"respond", "finished"}) =>
          /\ Returned
          /\ needsSSR \in BOOLEAN
          /\ confidence \in Nat
          /\ \A i \in 1..Len(evidence) : Len(evidence[i]) > 0
          /\ Len(frameworkDetected) > 0)
  /\ (calls > 0) ~> Returned

\* a run that went through the catch block and returned its report
C5_Witness == Returned /\ errorMessage # "" /\ InEvidence(errorLine)

\* C6: the list collected by the remote directory walk never holds more than
\* 100 paths.
C6_StructureCapped == Len(repoStructure) <= StructureCap

\* C7: owner is the first path segment after github.com, repo the second
\* with only a trailing .git removed.
C7_OwnerAndRepo ==
  (isGithubUrl /\ pc \notin {"request", "resolve"}) =>
    /\ owner = SegmentAfterHost(repoPathOrUrl, 1)
    /\ repo  = StripTrailingGit(SegmentAfterHost(repoPathOrUrl, 2))

\* C8: GET /check-repo answers 400 without invoking the analysis when
\* repoPath is missing or empty; otherwise it invokes detectSSR once and
\* answers 200 with the report when the call returns, 500 only when it
\* throws; one response per request.
C8_HandlerContract ==
  caller = "http" =>
    /\ calls <= 1
    /\ Len(responses) <= 1
    /\ pc # "finished" => responses = <<>>
    /\ pc = "finished" =>
         /\ Len(responses) = 1
         /\ IF ~request.present \/ request.repoPath = <<>>
              THEN /\ calls = 0
                   /\ responses[1] = Response(400, "repoPath is required", "", FALSE)
              ELSE /\ calls = 1
                   /\ Returned => responses[1] = Response(200, "", "", TRUE)
                   /\ responses[1].status = 500 => outcome = "threw"
                   /\ responses[1].status \in {200, 500}

\* the handler has answered 200 with the report of its one detectSSR call
C8_Witness ==
  /\ caller = "http" /\ pc = "finished" /\ calls = 1
  /\ responses = << Response(200, "", "", TRUE) >>

\* C9: a project without any signal (an existing empty local directory, or a
\* remote repository) gets confidence 0, needsSSR false, frameworkDetected
\* null, and no evidence but the "Analyzing GitHub repository" line remotely.
C9_NoSignalNoFinding ==
  (Returned /\ NoSignal /\ (isGithubUrl \/ EmptyDirectory)) =>
    /\ confidence = 0 /\ ~needsSSR /\ frameworkDetected = null
    /\ evidence = IF isGithubUrl THEN << analyzingLine >> ELSE <<>>

\* the extended detector has gone through an empty local directory
C9_Witness ==
  /\ Returned /\ NoSignal /\ EmptyDirectory /\ ~isGithubUrl /\ variant = "extended"
  /\ evidence = <<>>

\* the project's only signal is the configuration file configFiles[i]
OnlyConfigFile(i) ==
  /\ project.pkg.kind = "absent" /\ project.dirs = {}
  /\ ~project.render /\ ~project.nodeModules /\ project.hazard = "none"
  /\ project.configs = { configFiles[i].file }
  /\ RootListed

\* the step of the configuration file loop that finds configFiles[idx]
ConfigFinding ==
  /\ pc = "config" /\ idx <= Len(configFiles)
  /\ configFileExists(configFiles[idx].file)

ConfigFindingEffect ==
  /\ confidence' = confidence + 20
  /\ evidence' = Append(evidence, configLine(configFiles[idx]))
  /\ needsSSR'
  /\ frameworkDetected' \in { frameworkDetected, configFiles[idx].framework }
  /\ frameworkDetected' # null

\* C10: each configuration file found at the root adds exactly 20, its
\* evidence line, and forces needsSSR; a project whose only signal is one
\* configuration file gets confidence 20, needsSSR and that file's framework.
C10_ConfigFileFinding ==
  /\ [][ConfigFinding => ConfigFindingEffect]_vars
  /\ [](\A i \in 1..Len(configFiles) :
          (Returned /\ OnlyConfigFile(i)) =>
            /\ confidence = 20 /\ needsSSR
            /\ frameworkDetected = configFiles[i].framework
            /\ InEvidence(configLine(configFiles[i])))

\* a local project holding only angular.json got confidence 20 and needsSSR
C10_Witness ==
  /\ Returned /\ ~isGithubUrl /\ OnlyConfigFile(Len(configFiles))
  /\ confidence = 20 /\ needsSSR /\ frameworkDetected = "Angular"

\* the evidence lines of the two forcing findings that name no framework
ssrFunctionsLine(name) ==
  "Found SSR functions (getServerSideProps or getInitialProps) in " \o name
renderToStringLine == "Found renderToString calls (React SSR)"

\* the evidence lines of the findings that force needsSSR
ForcingLines ==
  { frameworkLine(ssrFrameworks[i]) : i \in 1..Len(ssrFrameworks) }
    \cup { configLine(configFiles[i]) : i \in 1..Len(configFiles) }
    \cup { ssrFunctionsLine(n) : n \in {"pages", "app"} }
    \cup { renderToStringLine }

\* a forcing finding fired during the run
ForcingFinding == \E i \in 1..Len(evidence) : evidence[i] \in ForcingLines

\* C11: a returned report has needsSSR only if a forcing finding fired
\* (framework dependency, configuration file, SSR functions, renderToString)
\* or confidence > 30; library, server package and directory findings alone,
\* totalling 30 or less, leave needsSSR false and frameworkDetected null.
C11_NeedsSSROnlyWhenForcedOrAboveThreshold ==
  Returned =>
    /\ needsSSR => (ForcingFinding \/ confidence > 30)
    /\ (~ForcingFinding /\ confidence <= 30) => (~needsSSR /\ frameworkDetected = null)

\* a library finding and two directory findings, 30 in all, and the report
\* says no
C11_Witness ==
  /\ Returned /\ ~ForcingFinding /\ ~needsSSR /\ frameworkDetected = null
  /\ InEvidence("Found potential SSR library: react-dom")
  /\ InEvidence("Found SSR-related directory: server (indicates Generic Server)")
  /\ confidence = 30

\* the messages of the exceptions that reach the catch of detectSSR
ErrorMessages ==
  { "Unexpected end of JSON input", "Unexpected token in JSON" }
    \cup { ScandirMessage(p) : p \in { EmptyProject, MissingProject } }

IsErrorLine(line) == \E m \in ErrorMessages : line = "Error analyzing repository: " \o m

ErrorLineCount == Cardinality({ i \in 1..Len(evidence) : IsErrorLine(evidence[i]) })

\* the run went through the catch of detectSSR
Caught == errorMessage # "" /\ pc \in {"return", "respond", "finished"}

\* C12: the outer catch appends exactly one "Error analyzing repository:"
\* line, as the last evidence entry, and leaves the evidence, confidence,
\* frameworkDetected and needsSSR gathered before the failure as they were up
\* to the return; no report holds more than one error line.
C12_CatchAppendsOneErrorLine ==
  /\ [][pc = "catch" => /\ evidence' = Append(evidence, errorLine)
                        /\ IsErrorLine(errorLine)
                        /\ UNCHANGED << needsSSR, frameworkDetected, confidence >>]_vars
  /\ [][Caught => UNCHANGED results]_vars
  /\ [](ErrorLineCount <= 1)
  /\ [](Caught => /\ ErrorLineCount = 1
                  /\ evidence[Len(evidence)] = errorLine)
  /\ [](errorMessage = "" => ErrorLineCount = 0)

\* a report returned through the catch that keeps the findings made before
\* the failure
C12_Witness ==
  /\ Returned /\ Caught
  /\ Len(evidence) >= 2 /\ confidence > 0
  /\ evidence[Len(evidence)] = errorLine

\* C13: in every step of a run, the error path included, confidence does not
\* decrease, evidence only grows at its end with the earlier entries kept in
\* place, and needsSSR does not go from true back to false.
C13_ResultsGrowMonotonically ==
  [][ /\ confidence' >= confidence
      /\ IsPrefix(evidence, evidence')
      /\ needsSSR => needsSSR' ]_vars

\* a run whose results grew in several steps and then went through the catch
C13_Witness ==
  /\ Returned /\ Caught /\ needsSSR
  /\ Len(evidence) >= 3 /\ confidence >= 40

\* C14: in every state of a run and in every returned report, a framework
\* is named only together with needsSSR and a confidence of at least 20.
C14_FrameworkImpliesNeedsSSR ==
  frameworkDetected # null => (needsSSR /\ confidence >= 20)

\* in the middle of a remote run, a configuration file has just named the
\* framework, with confidence exactly 20
C14_Witness ==
  /\ outcome = "pending" /\ pc = "config" /\ isGithubUrl
  /\ frameworkDetected # null /\ needsSSR /\ confidence = 20

=============================================================================
